---- MODULE Spec2Model ----
(***************************************************************************)
(* Model of lab4/app: the phase clock (TimeSelector.get_phase and          *)
(* AppService._compute_next_checkpoint), the wallpaper matrix              *)
(* (pick_instance, resolve_file, the last-applied cache) and the           *)
(* scheduler (AppService.run_once, AppService.run_daemon).                 *)
(*                                                                         *)
(* Instants are integers: seconds since local midnight of day 0.           *)
(***************************************************************************)
EXTENDS Integers, Sequences, FiniteSets, TLC

VARIABLES
    now,        \* the instant datetime.now() returns
    weather,    \* the WeatherData in use (or NoWeather)
    phase,      \* result of the last get_phase call ("none" before any call)
    next_cp,    \* result of the last _compute_next_checkpoint call, or NoCheckpoint
    prev_label, \* label of the checkpoint the iteration last moved to
    help_phase, \* result of the last call of help/selector.py's get_phase ("none" before any)
    wallpapers, \* AppService.wallpapers: the WallpaperMatrix built by from_json
    cacheFile,  \* content of .cache/last_state.json
    tick,       \* what the last run_once did: [outcome, instance, file, save]
    applied,    \* the triple of the last apply_wallpaper that succeeded (the remote's state)
    save_failed, \* history: some write of save_cache has failed
    rand,       \* the draws of random the last pick_instance call used
    seconds,    \* run_daemon: the duration handed to asyncio.sleep
    pc,         \* position of the process
    settings,   \* AppService._log_max_entries and AppService._stats_enabled
    stats,      \* content of .cache/weather_stats.json
    client,     \* TelegramClientWrapper._client: "none" or "connected"
    post,       \* the steps after apply_wallpaper of the last run_once; the daemon's exit
    hist,       \* history: the counters at construction, the applies counted since
    inflight    \* the calls of run_once suspended at the await of apply_wallpaper

vars == <<now, weather, phase, next_cp, prev_label, help_phase, wallpapers, cacheFile, tick, applied,
          save_failed, rand, seconds, pc, settings, stats, client, post, hist, inflight>>

\* "no checkpoint computed yet"
NoCheckpoint == [time |-> -1, label |-> "none"]

\* ------------------------------------------------------------ bounds
Grid == 600          \* spacing of the instants the inputs are drawn from
MaxSlot == 300       \* inputs range over 0 .. MaxSlot * Grid (two days and a bit)

\* ------------------------------------------------------------ timedelta constants
M30 == 1800          \* timedelta(minutes=30)
H2 == 7200           \* timedelta(hours=2)
M20 == 1200          \* timedelta(minutes=20)
M50 == 3000          \* timedelta(minutes=50)
DAY == 86400         \* timedelta(days=1)

Phase == {"night", "dawn", "morning", "day", "evening", "sunset"}

\* Optional[str] / Optional[int]: Python's None
NoneStr == "<None>"
NoneInt == 0 - 1

\* WeatherData (timezone_offset is carried by the instants themselves)
Signal(sr, ss, main, wid, clouds) ==
    [sunrise |-> sr, sunset |-> ss, weather_main |-> main, weather_id |-> wid,
     clouds_percent |-> clouds]

\* a WeatherData whose optional fields are all None
WeatherData(sr, ss) == Signal(sr, ss, NoneStr, NoneInt, NoneInt)

\* WeatherProvider.fetch returned None
NoWeather == Signal(NoneInt, NoneInt, NoneStr, NoneInt, NoneInt)

\* ------------------------------------------------------------ TimeSelector
get_phase_upper_inclusive(w, t) ==
    LET sunrise == w.sunrise
        sunset == w.sunset
    IN  IF sunrise - M30 <= t /\ t <= sunrise + M30 THEN "dawn"
        ELSE IF sunrise + M30 <= t /\ t < sunrise + H2 THEN "morning"
        ELSE IF sunrise + H2 <= t /\ t < sunset - H2 THEN "day"
        ELSE IF sunset - H2 <= t /\ t < sunset - M30 THEN "evening"
        ELSE IF sunset - M30 <= t /\ t < sunset + M30 THEN "sunset"
        ELSE "night"

get_phase_sunset_until_twilight(w, t) ==
    LET sunrise == w.sunrise
        sunset == w.sunset
    IN  IF sunrise - M30 <= t /\ t < sunrise + M30 THEN "dawn"
        ELSE IF sunrise + M30 <= t /\ t < sunrise + H2 THEN "morning"
        ELSE IF sunrise + H2 <= t /\ t < sunset - H2 THEN "day"
        ELSE IF sunset - H2 <= t /\ t < sunset - M30 THEN "evening"
        ELSE IF sunset - M30 <= t /\ t < sunset + M20 THEN "sunset"
        ELSE "night"

get_phase(w, t) ==
    LET sunrise == w.sunrise
        sunset == w.sunset
        dawn_start == sunrise - M30
        dawn_end == sunrise + M30
        morning_start == dawn_end
        morning_end == sunrise + H2
        day_start == morning_end
        day_end == sunset - H2
        evening_start == day_end
        evening_end == sunset - M30
        sunset_start == evening_end
        sunset_end == sunset + M30
    IN  IF dawn_start <= t /\ t < dawn_end THEN "dawn"
        ELSE IF morning_start <= t /\ t < morning_end THEN "morning"
        ELSE IF day_start <= t /\ t < day_end THEN "day"
        ELSE IF evening_start <= t /\ t < evening_end THEN "evening"
        ELSE IF sunset_start <= t /\ t < sunset_end THEN "sunset"
        ELSE "night"

\* ------------------------------------------------------------ AppService._compute_next_checkpoint
compute_next_checkpoint_day_end_inclusive(w, t) ==
    LET sunrise == w.sunrise
        sunset == w.sunset
    IN  IF t < sunrise - M30 THEN [time |-> sunrise - M30, label |-> "dawn"]
        ELSE IF t < sunrise + M30 THEN [time |-> sunrise + M30, label |-> "morning"]
        ELSE IF t < sunrise + H2 THEN [time |-> sunrise + H2, label |-> "day"]
        ELSE IF t <= sunset - H2 THEN [time |-> sunset - H2, label |-> "evening"]
        ELSE IF t < sunset + M20 THEN [time |-> sunset + M20, label |-> "twilight"]
        ELSE IF t < sunset + M50 THEN [time |-> sunset + M50, label |-> "night"]
        ELSE [time |-> sunrise + DAY - M30, label |-> "dawn"]

compute_next_checkpoint(w, t) ==
    LET sunrise == w.sunrise
        sunset == w.sunset
        dawn_start == sunrise - M30
        dawn_end == sunrise + M30
        morning_end == sunrise + H2
        day_end == sunset - H2
        evening_end == sunset + M20
        twilight_end == sunset + M50
        next_sunrise == sunrise + DAY
        next_dawn_start == next_sunrise - M30
    IN  IF t < dawn_start THEN [time |-> dawn_start, label |-> "dawn"]
        ELSE IF t < dawn_end THEN [time |-> dawn_end, label |-> "morning"]
        ELSE IF t < morning_end THEN [time |-> morning_end, label |-> "day"]
        ELSE IF t < day_end THEN [time |-> day_end, label |-> "evening"]
        ELSE IF t < evening_end THEN [time |-> evening_end, label |-> "twilight"]
        ELSE IF t < twilight_end THEN [time |-> twilight_end, label |-> "night"]
        ELSE [time |-> next_dawn_start, label |-> "dawn"]

\* ------------------------------------------------------------ WallpaperMatrix
\* A WallpaperMatrix is [flags, probabilities, matrix]; matrix maps a phase to
\* its instances in insertion order, a sequence of [inst, files] with files a
\* sequence of relative paths. Probabilities and the draws of random.random()
\* are counted in units of 1/Res.

\* str.lower() on the values of OpenWeather's weather[0].main
Lower(str) ==
    CASE str = "Thunderstorm" -> "thunderstorm"
      [] str = "Drizzle" -> "drizzle"
      [] str = "Rain" -> "rain"
      [] str = "Snow" -> "snow"
      [] str = "Mist" -> "mist"
      [] str = "Fog" -> "fog"
      [] str = "Haze" -> "haze"
      [] str = "Clear" -> "clear"
      [] str = "Clouds" -> "clouds"
      [] str = "Tornado" -> "tornado"
      [] OTHER -> str

\* (x or "") and (x or 0)
OrEmpty(x) == IF x = NoneStr THEN "" ELSE x
OrZero(x) == IF x = NoneInt THEN 0 ELSE x

\* random.choice(seq) with the draw k
Choice(seq, k) == seq[((k - 1) % Len(seq)) + 1]

\* self.matrix.get(phase), None and {} both as the empty sequence
MatrixGet(wp, ph) == IF ph \in DOMAIN wp.matrix THEN wp.matrix[ph] ELSE <<>>

\* phase_map.get(inst), None and [] both as the empty sequence
InstGet(phase_map, inst) ==
    LET hits == {i \in 1..Len(phase_map) : phase_map[i].inst = inst}
    IN  IF hits = {} THEN <<>> ELSE phase_map[CHOOSE i \in hits : TRUE].files

instances_for_phase(wp, ph) ==
    LET phase_map == MatrixGet(wp, ph)
    IN  [i \in 1..Len(phase_map) |-> phase_map[i].inst]

\* the cloud-cover buckets of lines 215 and 219
CloudBucket(clouds_pct) ==
    IF clouds_pct >= 85 THEN "overcast"
    ELSE IF clouds_pct >= 40 THEN "cloudy" ELSE "clear"

BaseInstance_rain_before_drizzle(weather_main, weather_id, clouds) ==
    LET main == Lower(OrEmpty(weather_main))
        wid == OrZero(weather_id)
        clouds_pct == OrZero(clouds)
    IN  IF main = "thunderstorm" \/ (200 <= wid /\ wid <= 232) THEN "heavy_rain"
        ELSE IF main = "rain" \/ (500 <= wid /\ wid <= 531)
            THEN (IF wid \in {502, 503, 504, 522, 531} THEN "heavy_rain" ELSE "rain")
        ELSE IF main = "drizzle" THEN "rain"
        ELSE IF main = "snow" \/ (600 <= wid /\ wid <= 622)
            THEN (IF wid \in {602, 622} THEN "heavy_rain" ELSE "rain")
        ELSE IF main \in {"mist", "fog", "haze"} \/ (700 <= wid /\ wid < 800)
            THEN CloudBucket(clouds_pct)
        ELSE IF main = "clear" \/ wid = 800 THEN "clear"
        ELSE IF main = "clouds" \/ (801 <= wid /\ wid <= 804)
            THEN CloudBucket(clouds_pct)
        ELSE "clear"

\* lines 199-221: the base instance
BaseInstance(weather_main, weather_id, clouds) ==
    LET main == Lower(OrEmpty(weather_main))
        wid == OrZero(weather_id)
        clouds_pct == OrZero(clouds)
    IN  IF main = "thunderstorm" \/ (200 <= wid /\ wid <= 232) THEN "heavy_rain"
        ELSE IF main = "drizzle" THEN "rain"
        ELSE IF main = "rain" \/ (500 <= wid /\ wid <= 531)
            THEN (IF wid \in {502, 503, 504, 522, 531} THEN "heavy_rain" ELSE "rain")
        ELSE IF main = "snow" \/ (600 <= wid /\ wid <= 622)
            THEN (IF wid \in {602, 622} THEN "heavy_rain" ELSE "rain")
        ELSE IF main \in {"mist", "fog", "haze"} \/ (700 <= wid /\ wid < 800)
            THEN CloudBucket(clouds_pct)
        ELSE IF main = "clear" \/ wid = 800 THEN "clear"
        ELSE IF main = "clouds" \/ (801 <= wid /\ wid <= 804)
            THEN CloudBucket(clouds_pct)
        ELSE "clear"

\* variant: the overlay takes a fog key that is present, whatever its list
FogTarget_by_key(wp, ph, base) ==
    LET keys == {MatrixGet(wp, ph)[i].inst : i \in DOMAIN MatrixGet(wp, ph)}
        preferred == IF base = "clear" THEN "fog_clear" ELSE "fog_cloudy"
        alt == IF preferred = "fog_clear" THEN "fog_cloudy" ELSE "fog_clear"
    IN  IF preferred \in keys THEN preferred
        ELSE IF alt \in keys THEN alt
        ELSE ""

\* lines 250-265: the fog instance the overlay would substitute, "" for None
FogTarget(wp, ph, base) ==
    LET phase_map == MatrixGet(wp, ph)
        preferred == IF base = "clear" THEN "fog_clear" ELSE "fog_cloudy"
        alt == IF preferred = "fog_clear" THEN "fog_cloudy" ELSE "fog_clear"
    IN  IF Len(InstGet(phase_map, preferred)) > 0 THEN preferred
        ELSE IF Len(InstGet(phase_map, alt)) > 0 THEN alt
        ELSE ""

pick_instance_fog_not_gated(wp, ph, weather_main, weather_id, clouds, fog_rand, thunder_rand, k) ==
    IF wp.flags.mode = "time_only" THEN "clear"
    ELSE
    LET base == BaseInstance(weather_main, weather_id, clouds)
        insts == instances_for_phase(wp, ph)
        fog_target == FogTarget(wp, ph, base)
        fogged ==
            IF /\ ph = "dawn" /\ base \in {"clear", "cloudy"}
               /\ fog_target # ""
               /\ fog_rand < wp.probabilities.fogChance
            THEN fog_target ELSE base
    IN  IF wp.flags.mode = "random_mode"
        THEN (IF Len(insts) > 0
              THEN (IF wp.flags.use_random_selection THEN Choice(insts, k) ELSE insts[1])
              ELSE base)
        ELSE IF fogged = "heavy_rain" /\ thunder_rand < wp.probabilities.thunderChance
             THEN "thunderstorm"
             ELSE fogged

pick_instance_thunder_inclusive(wp, ph, weather_main, weather_id, clouds, fog_rand, thunder_rand, k) ==
    IF wp.flags.mode = "time_only" THEN "clear"
    ELSE
    LET base == BaseInstance(weather_main, weather_id, clouds)
        insts == instances_for_phase(wp, ph)
        fog_allowed_general == ph = "dawn" /\ base \in {"clear", "cloudy"}
        fog_target == FogTarget(wp, ph, base)
        fogged ==
            IF /\ fog_allowed_general
               /\ fog_target # ""
               /\ wp.flags.mode # "weather_no_fog"
               /\ fog_rand < wp.probabilities.fogChance
            THEN fog_target ELSE base
    IN  IF wp.flags.mode = "random_mode"
        THEN (IF Len(insts) > 0
              THEN (IF wp.flags.use_random_selection THEN Choice(insts, k) ELSE insts[1])
              ELSE base)
        ELSE IF fogged = "heavy_rain" /\ thunder_rand <= wp.probabilities.thunderChance
             THEN "thunderstorm"
             ELSE fogged

\* WallpaperMatrix.pick_instance; fog_rand and thunder_rand are the two
\* random.random() draws, k the draw of random.choice
pick_instance(wp, ph, weather_main, weather_id, clouds, fog_rand, thunder_rand, k) ==
    IF wp.flags.mode = "time_only" THEN "clear"
    ELSE
    LET base == BaseInstance(weather_main, weather_id, clouds)
        insts == instances_for_phase(wp, ph)
        fog_allowed_general == ph = "dawn" /\ base \in {"clear", "cloudy"}
        fog_target == FogTarget(wp, ph, base)
        fogged ==
            IF /\ fog_allowed_general
               /\ fog_target # ""
               /\ wp.flags.mode # "weather_no_fog"
               /\ fog_rand < wp.probabilities.fogChance
            THEN fog_target ELSE base
    IN  IF wp.flags.mode = "random_mode"
        THEN (IF Len(insts) > 0
              THEN (IF wp.flags.use_random_selection THEN Choice(insts, k) ELSE insts[1])
              ELSE base)
        ELSE IF fogged = "heavy_rain" /\ thunder_rand < wp.probabilities.thunderChance
             THEN "thunderstorm"
             ELSE fogged

\* (self.base_dir / choice).expanduser().resolve(), as the string of the path
Resolve(choice) ==
    CASE choice = "./dawn1.jpg" -> <<"/base", "dawn1.jpg">>
      [] choice = "img/../dawn2.jpg" -> <<"/base", "dawn2.jpg">>
      [] OTHER -> <<"/base", choice>>

\* resolve_file returned None
NoPath == <<>>

\* lines 117-122: the first non-empty list of the phase, in insertion order
FirstNonEmpty(phase_map) ==
    LET hits == {i \in 1..Len(phase_map) : Len(phase_map[i].files) > 0}
    IN  IF hits = {} THEN <<>>
        ELSE phase_map[CHOOSE i \in hits : \A j \in hits : i <= j].files

resolve_file_without_clear_fallback(wp, ph, instance, k) ==
    LET phase_map == MatrixGet(wp, ph)
        c1 == InstGet(phase_map, instance)
        c3 == IF Len(c1) = 0 THEN FirstNonEmpty(phase_map) ELSE c1
    IN  IF Len(phase_map) = 0 THEN NoPath
        ELSE IF Len(c3) = 0 THEN NoPath
        ELSE Resolve(IF wp.flags.use_random_selection THEN Choice(c3, k) ELSE c3[1])

\* WallpaperMatrix.resolve_file (= pick_wallpaper); k is the draw of random.choice
resolve_file(wp, ph, instance, k) ==
    LET phase_map == MatrixGet(wp, ph)
        c1 == InstGet(phase_map, instance)
        c2 == IF Len(c1) = 0 THEN InstGet(phase_map, "clear") ELSE c1
        c3 == IF Len(c2) = 0 THEN FirstNonEmpty(phase_map) ELSE c2
    IN  IF Len(phase_map) = 0 THEN NoPath
        ELSE IF Len(c3) = 0 THEN NoPath
        ELSE Resolve(IF wp.flags.use_random_selection THEN Choice(c3, k) ELSE c3[1])


\* ------------------------------------------------------------ the last-applied cache
\* The file holds a JSON object {phase, weather, file} (kind "json"), is absent
\* (kind "missing") or holds text json.loads rejects (kind "corrupt"). The
\* string "" of the "file" key is the empty sequence.
Triple(ph, inst, file) == [phase |-> ph, weather |-> inst, file |-> file]
EmptyTriple == Triple("", "", <<>>)

CacheJson(t) == [kind |-> "json", data |-> t]
EmptyCache == CacheJson(EmptyTriple)
CacheMissing == [kind |-> "missing", data |-> EmptyTriple]
CacheCorrupt == [kind |-> "corrupt", data |-> EmptyTriple]

\* WallpaperMatrix.init_cache under from_json's try/except; ok: mkdir and write succeed
init_cache(file, ok) ==
    IF ok /\ file.kind = "missing" THEN EmptyCache ELSE file

\* WallpaperMatrix.load_cache
load_cache(file) ==
    IF file.kind = "json" THEN file.data ELSE EmptyTriple

save_cache_keeps_existing(file, ph, inst, path, how) ==
    IF how = "ok" /\ load_cache(file) = EmptyTriple THEN CacheJson(Triple(ph, inst, path))
    ELSE IF how = "fail_truncated" THEN CacheCorrupt
    ELSE file

\* WallpaperMatrix.save_cache; how: the write succeeds ("ok"), fails before the
\* file is opened ("fail_unchanged") or fails after it was truncated
\* ("fail_truncated")
save_cache(file, ph, inst, path, how) ==
    IF how = "ok" THEN CacheJson(Triple(ph, inst, path))
    ELSE IF how = "fail_truncated" THEN CacheCorrupt
    ELSE file

should_skip_by_cache_flag_inverted(wp, file, ph, inst, path) ==
    IF wp.flags.cache_enabled THEN FALSE
    ELSE LET data == load_cache(file)
         IN  data.phase = ph /\ data.weather = inst /\ data.file = path

should_skip_by_cache_ignoring_file(wp, file, ph, inst, path) ==
    IF ~wp.flags.cache_enabled THEN FALSE
    ELSE LET data == load_cache(file)
         IN  data.phase = ph /\ data.weather = inst

should_skip_by_cache_unreadable_matches(wp, file, ph, inst, path) ==
    IF ~wp.flags.cache_enabled THEN FALSE
    ELSE IF file.kind # "json" THEN TRUE
    ELSE LET data == load_cache(file)
         IN  data.phase = ph /\ data.weather = inst /\ data.file = path

\* WallpaperMatrix.should_skip_by_cache
should_skip_by_cache(wp, file, ph, inst, path) ==
    IF ~wp.flags.cache_enabled THEN FALSE
    ELSE LET data == load_cache(file)
         IN  data.phase = ph /\ data.weather = inst /\ data.file = path

\* ------------------------------------------------------------ the weather stats and the log trim
\* The stats file holds a JSON object of counters (kind "json"), is absent
\* (kind "missing") or holds text json.load rejects (kind "corrupt").
StatKeys == {"clear", "cloudy", "overcast", "rain", "heavy_rain", "thunderstorm", "fog"}
ZeroStats == [k \in StatKeys |-> 0]

StatsJson(d) == [kind |-> "json", data |-> d]
StatsMissing == [kind |-> "missing", data |-> ZeroStats]
StatsCorrupt == [kind |-> "corrupt", data |-> ZeroStats]

\* instance.startswith("fog"), on the instance names that occur
StartsWithFog(instance) == instance \in {"fog", "fog_clear", "fog_cloudy"}

\* line 74
StatKey(instance) == IF StartsWithFog(instance) THEN "fog" ELSE instance

\* lines 60-71: the defaults, overwritten by what the file holds
StatsData(file) == IF file.kind = "json" THEN file.data ELSE ZeroStats

\* data[key] = int(data.get(key, 0)) + 1
Bump(data, key) ==
    [k \in DOMAIN data \cup {key} |->
        IF k = key THEN (IF k \in DOMAIN data THEN data[k] ELSE 0) + 1 ELSE data[k]]

update_weather_stats_keeps_fog_variants(file, instance, enabled, how) ==
    IF ~enabled THEN file
    ELSE IF how = "ok" THEN StatsJson(Bump(StatsData(file), instance))
    ELSE IF how = "fail_truncated" THEN StatsCorrupt
    ELSE file

\* update_weather_stats; how: the write succeeds ("ok"), fails before the file
\* is opened, mkdir included ("fail_unchanged"), or fails after it was
\* truncated ("fail_truncated")
update_weather_stats(file, instance, enabled, how) ==
    IF ~enabled THEN file
    ELSE IF how = "ok" THEN StatsJson(Bump(StatsData(file), StatKey(instance)))
    ELSE IF how = "fail_truncated" THEN StatsCorrupt
    ELSE file

\* how update_weather_stats can end: "off" when disabled
StatsOutcomes(enabled) ==
    IF enabled THEN {"ok", "fail_unchanged", "fail_truncated"} ELSE {"off"}

\* how trim_logs can end: "off" for max_lines <= 0, else the file is left with
\* at most max_lines lines ("ok") or an error is swallowed ("failed")
TrimOutcomes(max_lines) == IF max_lines <= 0 THEN {"off"} ELSE {"ok", "failed"}

\* ------------------------------------------------------------ TelegramClientWrapper
\* how apply_wallpaper can end: it returns ("ok"), it raises with the client
\* connected ("raised": not authorized, RPC error), or client.connect() raises
\* in _ensure_client ("connect_failed")
ApplyOutcomes(c) ==
    IF c = "none" THEN {"ok", "raised", "connect_failed"} ELSE {"ok", "raised"}

\* _ensure_client: self._client after the call
ensure_client(c, outcome) == IF outcome = "connect_failed" THEN c ELSE "connected"

\* close: self._client after the call; ok: disconnect() returns
close(c, ok) == IF c = "connected" /\ ok THEN "none" ELSE c

\* what a call of close did
Closed(c, ok) == IF c = "none" THEN "noop" ELSE IF ok THEN "ok" ELSE "failed"

\* trim, stats, close: how the three steps after save_cache ended in the last
\* run_once ("none": not reached); cancel: where a cancellation reached
\* run_daemon; final: what the close of run_daemon's finally did
NoPost == [trim |-> "none", stats |-> "none", close |-> "none",
           cancel |-> "none", final |-> "none"]

\* AppService.__post_init__, lines 34-46
Settings(log_max_entries, stats_enabled) ==
    [log_max_entries |-> log_max_entries, stats_enabled |-> stats_enabled]

\* history at construction: the counters the stats file holds, nothing counted
NoHist(file) ==
    [stats0 |-> StatsData(file), applies |-> [i \in {} |-> 0], total |-> 0,
     stats_failed |-> FALSE]

\* ------------------------------------------------------------ configurations and inputs
Res == 2             \* random.random() and the chances are counted in units of 1/Res
MaxChoice == 2       \* the draws of random.choice range over 1..MaxChoice

Draws == 0..(Res - 1)
Modes == {"time_only", "weather_based", "weather_no_fog", "random_mode"}

Flags(mode, cache_enabled, use_random_selection) ==
    [mode |-> mode, cache_enabled |-> cache_enabled,
     use_random_selection |-> use_random_selection,
     apply_fog_for_all_phases |-> FALSE]

\* MatrixFlags with apply_fog_for_all_phases as from_json parses it (line 62)
FlagsFog(mode, cache_enabled, use_random_selection, apply_fog_for_all_phases) ==
    [Flags(mode, cache_enabled, use_random_selection)
        EXCEPT !.apply_fog_for_all_phases = apply_fog_for_all_phases]

Entry(inst, files) == [inst |-> inst, files |-> files]

\* dawn has two candidates for clear and a fog variant; day has one file on disk
\* and one that is not; the other phases have no entry
RunMatrix ==
    [ph \in {"dawn", "day"} |->
        IF ph = "dawn"
        THEN << Entry("clear", <<"./dawn1.jpg", "img/../dawn2.jpg">>),
                Entry("fog_clear", <<"fog.jpg">>),
                Entry("heavy_rain", <<"rain.jpg">>),
                Entry("thunderstorm", <<"storm.jpg">>) >>
        ELSE << Entry("clear", <<"day.jpg">>),
                Entry("heavy_rain", <<"gone.jpg">>) >>]

\* the files that exist on disk (wallpaper_path.exists())
FilesOnDisk ==
    {<<"/base", f>> : f \in {"dawn1.jpg", "dawn2.jpg", "fog.jpg", "rain.jpg", "storm.jpg", "day.jpg"}}

Wallpapers(flags, fog, thunder, matrix) ==
    [flags |-> flags,
     probabilities |-> [fogChance |-> fog, thunderChance |-> thunder],
     matrix |-> matrix]

DefaultWallpapers == Wallpapers(Flags("weather_no_fog", TRUE, TRUE), 1, 1, RunMatrix)

RunConfigs ==
    {Wallpapers(Flags(m, c, r), 1, 1, RunMatrix) : m \in Modes, c \in BOOLEAN, r \in BOOLEAN}

\* what the weather service reports for the instant t: sunrise 06:00 and sunset
\* 20:00 of the day of t, with one of the conditions below, or None
Conditions == { <<"Clear", 800, 0>>, <<"Rain", 502, 100>> }
SignalAt(t, c) ==
    Signal((t \div DAY) * DAY + 6 * 3600, (t \div DAY) * DAY + 20 * 3600, c[1], c[2], c[3])
\* at the instants of StaleInstants the service may still report the sunrise
\* and sunset of the day before
StaleInstants == {23 * 3600 + 50 * 60}
FetchAt(t) ==
    {SignalAt(t, c) : c \in Conditions} \cup {NoWeather}
        \cup (IF t \in StaleInstants THEN {SignalAt(t - DAY, c) : c \in Conditions} ELSE {})

SaveOutcomes == {"ok", "fail_unchanged", "fail_truncated"}

NoRand == [fog |-> 0, thunder |-> 0, k |-> 1]

NoTick == [outcome |-> "none", instance |-> "", file |-> NoPath, save |-> "none"]
Ticked(outcome, inst, path, save) ==
    [outcome |-> outcome, instance |-> inst, file |-> path, save |-> save]

\* ------------------------------------------------------------ AppService.run_once
\* the instances pick_instance can return, over the draws of random
PickedInstances(wp, ph, main, wid, clouds) ==
    {pick_instance(wp, ph, main, wid, clouds, fog_rand, thunder_rand, k) :
        fog_rand \in Draws, thunder_rand \in Draws, k \in 1..MaxChoice}

\* the paths pick_wallpaper can return, over the draw of random.choice
PickedPaths(wp, ph, inst) == {resolve_file(wp, ph, inst, k) : k \in 1..MaxChoice}

\* history: an apply that returned is counted under its instance while the
\* stats are enabled; st is how update_weather_stats ended
Counted(h, inst, st) ==
    IF st = "off" THEN h
    ELSE [h EXCEPT !.applies = Bump(@, inst), !.total = @ + 1,
                   !.stats_failed = @ \/ st # "ok"]

ApplyAndSave_SaveFirst(ph, inst, path) ==
    \E outcome \in ApplyOutcomes(client), save \in SaveOutcomes :
        /\ cacheFile' = save_cache(cacheFile, ph, inst, path, save)
        /\ save_failed' = (save_failed \/ save # "ok")
        /\ IF outcome # "ok"
           THEN /\ tick' = Ticked("apply_failed", inst, path, save)
                /\ client' = ensure_client(client, outcome)
                /\ post' = NoPost
                /\ UNCHANGED <<applied, stats, hist>>
           ELSE \E trim \in TrimOutcomes(settings.log_max_entries),
                   st \in StatsOutcomes(settings.stats_enabled), close_ok \in BOOLEAN :
                /\ tick' = Ticked("applied", inst, path, save)
                /\ applied' = Triple(ph, inst, path)
                /\ stats' = update_weather_stats(stats, inst, settings.stats_enabled, st)
                /\ client' = close("connected", close_ok)
                /\ post' = [NoPost EXCEPT !.trim = trim, !.stats = st,
                                       !.close = Closed("connected", close_ok)]
                /\ hist' = Counted(hist, inst, st)

ApplyAndSave_save_aborts(ph, inst, path) ==
    \E outcome \in ApplyOutcomes(client) :
        IF outcome # "ok"
        THEN /\ tick' = Ticked("apply_failed", inst, path, "none")
             /\ client' = ensure_client(client, outcome)
             /\ post' = NoPost
             /\ UNCHANGED <<cacheFile, applied, save_failed, stats, hist>>
        ELSE \E save \in SaveOutcomes, trim \in TrimOutcomes(settings.log_max_entries),
                st \in StatsOutcomes(settings.stats_enabled), close_ok \in BOOLEAN :
             /\ tick' = Ticked("applied", inst, path, save)
             /\ cacheFile' = save_cache(cacheFile, ph, inst, path, save)
             /\ save_failed' = (save_failed \/ save # "ok")
             /\ applied' = Triple(ph, inst, path)
             /\ IF save # "ok"
                THEN /\ client' = "connected"
                     /\ post' = NoPost
                     /\ UNCHANGED <<stats, hist>>
                ELSE /\ stats' = update_weather_stats(stats, inst, settings.stats_enabled, st)
                     /\ client' = close("connected", close_ok)
                     /\ post' = [NoPost EXCEPT !.trim = trim, !.stats = st,
                                               !.close = Closed("connected", close_ok)]
                     /\ hist' = Counted(hist, inst, st)

\* lines 87-106: apply_wallpaper returns or raises (the exception leaves
\* run_once); after it returned, save_cache writes the triple, trim_logs and
\* update_weather_stats run and the client is closed, each failure swallowed
ApplyAndSave(ph, inst, path) ==
    \E outcome \in ApplyOutcomes(client) :
        IF outcome # "ok"
        THEN /\ tick' = Ticked("apply_failed", inst, path, "none")
             /\ client' = ensure_client(client, outcome)
             /\ post' = NoPost
             /\ UNCHANGED <<cacheFile, applied, save_failed, stats, hist>>
        ELSE \E save \in SaveOutcomes, trim \in TrimOutcomes(settings.log_max_entries),
                st \in StatsOutcomes(settings.stats_enabled), close_ok \in BOOLEAN :
             /\ tick' = Ticked("applied", inst, path, save)
             /\ cacheFile' = save_cache(cacheFile, ph, inst, path, save)
             /\ save_failed' = (save_failed \/ save # "ok")
             /\ applied' = Triple(ph, inst, path)
             /\ stats' = update_weather_stats(stats, inst, settings.stats_enabled, st)
             /\ client' = close("connected", close_ok)
             /\ post' = [NoPost EXCEPT !.trim = trim, !.stats = st,
                                       !.close = Closed("connected", close_ok)]
             /\ hist' = Counted(hist, inst, st)

ReturnEarly_counting(outcome, inst, path) ==
    /\ tick' = Ticked(outcome, inst, path, "none")
    /\ post' = NoPost
    /\ stats' = update_weather_stats(stats, inst, settings.stats_enabled, "ok")
    /\ UNCHANGED <<cacheFile, applied, save_failed, client, hist>>

\* a call of run_once that returns before apply_wallpaper
ReturnEarly(outcome, inst, path) ==
    /\ tick' = Ticked(outcome, inst, path, "none")
    /\ post' = NoPost
    /\ UNCHANGED <<cacheFile, applied, save_failed, stats, client, hist>>

run_once_phase_night_without_weather(w, t) ==
    IF w = NoWeather THEN "night" ELSE get_phase(w, t)

\* lines 53-61: the phase run_once works with
run_once_phase(w, t) ==
    IF w = NoWeather THEN "day" ELSE get_phase(w, t)

\* One call of run_once at the instant t, lines 48-106: fetch, phase, instance,
\* file, cache skip, apply, cache save, log trim, stats, close.
RunOnceAt(t) ==
    \E w \in FetchAt(t) :
        LET ph == run_once_phase(w, t)
            main == IF w = NoWeather \/ w.weather_main = NoneStr
                    THEN NoneStr ELSE Lower(w.weather_main)
        IN  /\ now' = t
            /\ weather' = w
            /\ phase' = ph
            /\ \E inst \in PickedInstances(wallpapers, ph, main, w.weather_id, w.clouds_percent) :
               \E path \in PickedPaths(wallpapers, ph, inst) :
                 IF path = NoPath THEN ReturnEarly("no_file", inst, path)
                 ELSE IF path \notin FilesOnDisk THEN ReturnEarly("missing_file", inst, path)
                 ELSE IF should_skip_by_cache(wallpapers, cacheFile, ph, inst, path)
                 THEN ReturnEarly("skipped", inst, path)
                 ELSE ApplyAndSave(ph, inst, path)

\* ------------------------------------------------------------ single-shot runs (cli "run")
RunInstants == {6 * 3600, 6 * 3600 + Grid, 12 * 3600, 23 * 3600, 30 * 3600}

\* AppService(cfg): from_json builds the matrix and initialises the cache
RunInit ==
    /\ now \in RunInstants
    /\ wallpapers \in RunConfigs
    /\ \E ok \in BOOLEAN : cacheFile = init_cache(CacheMissing, ok)
    /\ tick = NoTick
    /\ applied = EmptyTriple
    /\ save_failed = FALSE
    /\ rand = NoRand
    /\ seconds = 0
    /\ weather = NoWeather
    /\ phase = "none"
    /\ next_cp = NoCheckpoint
    /\ prev_label = "none"
    /\ help_phase = "none"
    /\ settings = Settings(0, FALSE)
    /\ stats = StatsMissing
    /\ client = "none"
    /\ post = NoPost
    /\ hist = NoHist(StatsMissing)
    /\ inflight = << >>
    /\ pc = "constructed"

RunOnce_swallowing ==
    /\ pc = "constructed"
    /\ RunOnceAt(now)
    /\ pc' = "exited"
    /\ UNCHANGED <<next_cp, prev_label, help_phase, wallpapers, inflight, rand, seconds, settings>>

\* asyncio.run(service.run_once(city)), cli.py line 72: the process exits when
\* run_once returned and ends with the exception when run_once raised
RunOnce ==
    /\ pc = "constructed"
    /\ RunOnceAt(now)
    /\ pc' = IF tick'.outcome = "apply_failed" THEN "raised" ELSE "exited"
    /\ UNCHANGED <<next_cp, prev_label, help_phase, wallpapers, inflight, rand, seconds, settings>>

\* the command is started again, at the same or a later instant
RunAgain ==
    /\ pc \in {"exited", "raised"}
    /\ \E t \in RunInstants, ok \in BOOLEAN :
        /\ t >= now
        /\ now' = t
        /\ cacheFile' = init_cache(cacheFile, ok)
    /\ client' = "none"
    /\ pc' = "constructed"
    /\ UNCHANGED <<weather, phase, next_cp, prev_label, help_phase, wallpapers, inflight, tick, applied, save_failed,
                   rand, seconds, settings, stats, post, hist>>

RunNext == RunOnce \/ RunAgain

SpecRun == RunInit /\ [][RunNext]_vars

\* ------------------------------------------------------------ single-shot runs with the stats enabled
MaxApplies == 2      \* the runs are followed until MaxApplies applies have been counted

\* dawn has both fog variants, first in insertion order; day has one file on
\* disk and one that is not
StatsMatrix ==
    [ph \in {"dawn", "day"} |->
        IF ph = "dawn"
        THEN << Entry("fog_clear", <<"fog.jpg">>),
                Entry("fog_cloudy", <<"fog.jpg">>),
                Entry("clear", <<"./dawn1.jpg">>),
                Entry("heavy_rain", <<"rain.jpg">>) >>
        ELSE << Entry("clear", <<"day.jpg">>),
                Entry("heavy_rain", <<"gone.jpg">>) >>]

\* random_mode with the cache: every instance of the phase can be drawn
StatsConfigs ==
    {Wallpapers(Flags("random_mode", TRUE, TRUE), 1, 0, StatsMatrix)}

\* the stats file found at construction: absent, unreadable, or counters of
\* earlier runs
StatsFiles ==
    {StatsMissing, StatsCorrupt, StatsJson([ZeroStats EXCEPT !["clear"] = 2, !["fog"] = 1])}

\* the runs of this specification happen at dawn and in the day
StatsInstants == {6 * 3600, 12 * 3600}

StatsInit ==
    /\ now \in StatsInstants
    /\ wallpapers \in StatsConfigs
    /\ \E ok \in BOOLEAN : cacheFile = init_cache(CacheMissing, ok)
    /\ tick = NoTick
    /\ applied = EmptyTriple
    /\ save_failed = FALSE
    /\ rand = NoRand
    /\ seconds = 0
    /\ weather = NoWeather
    /\ phase = "none"
    /\ next_cp = NoCheckpoint
    /\ prev_label = "none"
    /\ help_phase = "none"
    /\ settings = Settings(50, TRUE)
    /\ stats \in StatsFiles
    /\ client = "none"
    /\ post = NoPost
    /\ hist = NoHist(stats)
    /\ inflight = << >>
    /\ pc = "constructed"

StatsRunOnce == hist.total < MaxApplies /\ RunOnce

StatsRunAgain == RunAgain /\ now' \in StatsInstants

StatsNext == StatsRunOnce \/ StatsRunAgain

SpecStats == StatsInit /\ [][StatsNext]_vars

\* ------------------------------------------------------------ AppService.run_daemon
\* Instants are those of the calls' start: a call of run_once and the
\* computation of the checkpoint take no time, asyncio.sleep(seconds) takes
\* exactly seconds.
MaxDays == 1             \* the daemon is followed until the end of day MaxDays

interval_minutes == 30   \* MatrixUpdate.interval_minutes, the fallback interval

Max(a, b) == IF a >= b THEN a ELSE b

\* every phase has one entry with one file; dawn has a second candidate
DaemonMatrix ==
    [ph \in Phase |->
        IF ph = "dawn" THEN << Entry("clear", <<"./dawn1.jpg", "img/../dawn2.jpg">>) >>
        ELSE IF ph = "night" THEN << Entry("clear", <<"gone.jpg">>) >>
        ELSE << Entry("clear", <<"day.jpg">>) >>]

DaemonConfigs ==
    {Wallpapers(Flags("time_only", TRUE, r), 1, 1, DaemonMatrix) : r \in BOOLEAN}

\* the daemon is started at midnight of day 0
DaemonStarts == {0}

DaemonInit ==
    /\ now \in DaemonStarts
    /\ wallpapers \in DaemonConfigs
    /\ \E ok \in BOOLEAN : cacheFile = init_cache(CacheMissing, ok)
    /\ tick = NoTick
    /\ applied = EmptyTriple
    /\ save_failed = FALSE
    /\ rand = NoRand
    /\ weather = NoWeather
    /\ phase = "none"
    /\ next_cp = NoCheckpoint
    /\ prev_label = "none"
    /\ help_phase = "none"
    /\ seconds = 0
    /\ settings = Settings(0, FALSE)
    /\ stats = StatsMissing
    /\ client = "none"
    /\ post = NoPost
    /\ hist = NoHist(StatsMissing)
    /\ inflight = << >>
    /\ pc = "run_once"

DaemonRunOnce_dies_on_failure ==
    /\ pc = "run_once"
    /\ RunOnceAt(now)
    /\ pc' = IF tick'.outcome = "apply_failed" THEN "closing" ELSE "checkpoint"
    /\ UNCHANGED <<next_cp, prev_label, help_phase, wallpapers, inflight, rand, seconds, settings>>

\* lines 114-117: run_once, any exception of it caught and logged
DaemonRunOnce ==
    /\ pc = "run_once"
    /\ RunOnceAt(now)
    /\ pc' = "checkpoint"
    /\ UNCHANGED <<next_cp, prev_label, help_phase, wallpapers, inflight, rand, seconds, settings>>

DaemonCheckpoint_unclamped ==
    /\ pc = "checkpoint"
    /\ \E w \in FetchAt(now) :
        IF w = NoWeather
        THEN /\ next_cp' = NoCheckpoint
             /\ seconds' = interval_minutes * 60
        ELSE /\ next_cp' = compute_next_checkpoint(w, now)
             /\ seconds' = next_cp'.time - now
    /\ pc' = "sleep"
    /\ UNCHANGED <<now, weather, phase, prev_label, help_phase, wallpapers, inflight, cacheFile, tick,
                   applied, save_failed, rand, settings, stats, client, post, hist>>

DaemonCheckpoint_retry_after_failure ==
    /\ pc = "checkpoint"
    /\ \E w \in FetchAt(now) :
        IF w = NoWeather
        THEN /\ next_cp' = NoCheckpoint
             /\ seconds' = IF tick.outcome = "apply_failed" THEN 60
                            ELSE Max(1, interval_minutes * 60)
        ELSE /\ next_cp' = compute_next_checkpoint(w, now)
             /\ seconds' = IF tick.outcome = "apply_failed" THEN 60
                            ELSE Max(1, next_cp'.time - now)
    /\ pc' = "sleep"
    /\ UNCHANGED <<now, weather, phase, prev_label, help_phase, wallpapers, inflight, cacheFile, tick,
                   applied, save_failed, rand, settings, stats, client, post, hist>>

\* lines 120-147: the next checkpoint from a fresh fetch, or the fallback interval
DaemonCheckpoint ==
    /\ pc = "checkpoint"
    /\ \E w \in FetchAt(now) :
        IF w = NoWeather
        THEN /\ next_cp' = NoCheckpoint
             /\ seconds' = Max(1, interval_minutes * 60)
        ELSE /\ next_cp' = compute_next_checkpoint(w, now)
             /\ seconds' = Max(1, next_cp'.time - now)
    /\ pc' = "sleep"
    /\ UNCHANGED <<now, weather, phase, prev_label, help_phase, wallpapers, inflight, cacheFile, tick,
                   applied, save_failed, rand, settings, stats, client, post, hist>>

\* line 150: await asyncio.sleep(seconds), then the next iteration
DaemonWake ==
    /\ pc = "sleep"
    /\ now + seconds <= MaxDays * DAY
    /\ now' = now + seconds
    /\ pc' = "run_once"
    /\ UNCHANGED <<weather, phase, next_cp, prev_label, help_phase, wallpapers, inflight, cacheFile, tick,
                   applied, save_failed, rand, seconds, settings, stats, client, post, hist>>

\* A cancellation (asyncio.CancelledError, not an Exception) reaches run_once
\* while it awaits apply_wallpaper at line 88: the handler of line 116 does not
\* catch it. The client may have been connected and the wallpaper may have
\* been set before it arrived.
DaemonCancelRunOnce ==
    /\ pc = "run_once"
    /\ \E w \in FetchAt(now) :
        LET ph == run_once_phase(w, now)
            main == IF w = NoWeather \/ w.weather_main = NoneStr
                    THEN NoneStr ELSE Lower(w.weather_main)
        IN  /\ weather' = w
            /\ phase' = ph
            /\ \E inst \in PickedInstances(wallpapers, ph, main, w.weather_id, w.clouds_percent) :
               \E path \in PickedPaths(wallpapers, ph, inst) :
                 /\ path # NoPath
                 /\ path \in FilesOnDisk
                 /\ ~should_skip_by_cache(wallpapers, cacheFile, ph, inst, path)
                 /\ tick' = Ticked("cancelled", inst, path, "none")
                 /\ \E connected \in BOOLEAN, set \in BOOLEAN :
                      /\ client' = IF connected THEN "connected" ELSE client
                      /\ applied' = IF connected /\ set THEN Triple(ph, inst, path) ELSE applied
    /\ post' = [NoPost EXCEPT !.cancel = "run_once"]
    /\ pc' = "closing"
    /\ UNCHANGED <<now, next_cp, prev_label, help_phase, wallpapers, inflight, cacheFile, save_failed, rand,
                   seconds, settings, stats, hist>>

\* an interrupt during the computation of lines 120-147, or a cancellation
\* during the sleep of line 150
DaemonCancel ==
    /\ pc \in {"checkpoint", "sleep"}
    /\ post' = [post EXCEPT !.cancel = pc]
    /\ pc' = "closing"
    /\ UNCHANGED <<now, weather, phase, next_cp, prev_label, help_phase, wallpapers, inflight, cacheFile, tick,
                   applied, save_failed, rand, seconds, settings, stats, client, hist>>

DaemonClose_skipped ==
    /\ pc = "closing"
    /\ pc' = "finished"
    /\ UNCHANGED <<now, weather, phase, next_cp, prev_label, help_phase, wallpapers, inflight, cacheFile, tick,
                   applied, save_failed, rand, seconds, settings, stats, client, post, hist>>

\* lines 151-155: the finally of run_daemon closes the client; an exception of
\* the close is caught and logged
DaemonClose ==
    /\ pc = "closing"
    /\ \E ok \in BOOLEAN :
        /\ client' = close(client, ok)
        /\ post' = [post EXCEPT !.final = Closed(client, ok)]
    /\ pc' = "finished"
    /\ UNCHANGED <<now, weather, phase, next_cp, prev_label, help_phase, wallpapers, inflight, cacheFile, tick,
                   applied, save_failed, rand, seconds, settings, stats, hist>>

\* the loop of lines 112-150, left alone by cancellations
DaemonNext == DaemonRunOnce \/ DaemonCheckpoint \/ DaemonWake

SpecDaemon == DaemonInit /\ [][DaemonNext]_vars

\* the daemon started at the instant t of day 0
DaemonStartedAt(t) ==
    /\ now = t
    /\ wallpapers \in DaemonConfigs
    /\ \E ok \in BOOLEAN : cacheFile = init_cache(CacheMissing, ok)
    /\ tick = NoTick
    /\ applied = EmptyTriple
    /\ save_failed = FALSE
    /\ rand = NoRand
    /\ weather = NoWeather
    /\ phase = "none"
    /\ next_cp = NoCheckpoint
    /\ prev_label = "none"
    /\ help_phase = "none"
    /\ seconds = 0
    /\ settings = Settings(0, FALSE)
    /\ stats = StatsMissing
    /\ client = "none"
    /\ post = NoPost
    /\ hist = NoHist(StatsMissing)
    /\ inflight = << >>
    /\ pc = "run_once"

DaemonLateInit == DaemonStartedAt(18 * 3600)

\* the loop with the cancellations and the finally of lines 151-155
DaemonStopNext ==
    \/ DaemonRunOnce
    \/ DaemonCheckpoint
    \/ DaemonWake
    \/ DaemonCancelRunOnce
    \/ DaemonCancel
    \/ DaemonClose

SpecDaemonStop == DaemonLateInit /\ [][DaemonStopNext]_vars

\* the loop under the event loop's scheduling: a step that can be taken is
\* taken (a call returns or raises, the sleep ends)
DaemonLiveInit == DaemonStartedAt(22 * 3600) /\ ~wallpapers.flags.use_random_selection

SpecDaemonLive == DaemonLiveInit /\ [][DaemonNext]_vars /\ WF_vars(DaemonNext)

\* ------------------------------------------------------------ run_daemon, run_once split at its await
\* Lines 48-87 of run_once hold no await: they run without suspension. At line
\* 88 the call is suspended in apply_wallpaper; when that returns or raises,
\* lines 89-106 follow. run_daemon awaits the call at line 115.

\* a call of run_once suspended at line 88, with what it selected
Pending(ph, inst, path) == [phase |-> ph, instance |-> inst, file |-> path]

DaemonTickStart_detached ==
    /\ pc = "run_once"
    /\ \E w \in FetchAt(now) :
        LET ph == run_once_phase(w, now)
            main == IF w = NoWeather \/ w.weather_main = NoneStr
                    THEN NoneStr ELSE Lower(w.weather_main)
        IN  /\ weather' = w
            /\ phase' = ph
            /\ \E inst \in PickedInstances(wallpapers, ph, main, w.weather_id, w.clouds_percent) :
               \E path \in PickedPaths(wallpapers, ph, inst) :
                 IF path = NoPath
                 THEN ReturnEarly("no_file", inst, path) /\ UNCHANGED inflight
                 ELSE IF path \notin FilesOnDisk
                 THEN ReturnEarly("missing_file", inst, path) /\ UNCHANGED inflight
                 ELSE IF should_skip_by_cache(wallpapers, cacheFile, ph, inst, path)
                 THEN ReturnEarly("skipped", inst, path) /\ UNCHANGED inflight
                 ELSE /\ inflight' = Append(inflight, Pending(ph, inst, path))
                      /\ UNCHANGED <<tick, post, cacheFile, applied, save_failed, stats,
                                     client, hist>>
    /\ pc' = "checkpoint"
    /\ UNCHANGED <<now, next_cp, prev_label, help_phase, wallpapers, rand, seconds, settings>>

\* lines 115 and 48-88: run_once is called and runs up to its await; it
\* returns early (no file, file not on disk, skipped by the cache) or is
\* suspended in apply_wallpaper, and run_daemon with it
DaemonTickStart ==
    /\ pc = "run_once"
    /\ \E w \in FetchAt(now) :
        LET ph == run_once_phase(w, now)
            main == IF w = NoWeather \/ w.weather_main = NoneStr
                    THEN NoneStr ELSE Lower(w.weather_main)
        IN  /\ weather' = w
            /\ phase' = ph
            /\ \E inst \in PickedInstances(wallpapers, ph, main, w.weather_id, w.clouds_percent) :
               \E path \in PickedPaths(wallpapers, ph, inst) :
                 IF path = NoPath
                 THEN ReturnEarly("no_file", inst, path)
                      /\ pc' = "checkpoint" /\ UNCHANGED inflight
                 ELSE IF path \notin FilesOnDisk
                 THEN ReturnEarly("missing_file", inst, path)
                      /\ pc' = "checkpoint" /\ UNCHANGED inflight
                 ELSE IF should_skip_by_cache(wallpapers, cacheFile, ph, inst, path)
                 THEN ReturnEarly("skipped", inst, path)
                      /\ pc' = "checkpoint" /\ UNCHANGED inflight
                 ELSE /\ inflight' = Append(inflight, Pending(ph, inst, path))
                      /\ pc' = "in_run_once"
                      /\ UNCHANGED <<tick, post, cacheFile, applied, save_failed, stats,
                                     client, hist>>
    /\ UNCHANGED <<now, next_cp, prev_label, help_phase, wallpapers, rand, seconds, settings>>

\* lines 88-106 and 115-117: apply_wallpaper returns or raises, the rest of
\* run_once follows, and run_daemon goes on (an exception is caught at 116)
DaemonTickEnd ==
    /\ pc = "in_run_once"
    /\ inflight # << >>
    /\ ApplyAndSave(Head(inflight).phase, Head(inflight).instance, Head(inflight).file)
    /\ inflight' = Tail(inflight)
    /\ pc' = "checkpoint"
    /\ UNCHANGED <<now, weather, phase, next_cp, prev_label, help_phase, wallpapers, rand, seconds,
                   settings>>

\* the daemon with the stats enabled, started at 18:00 of day 0
DaemonTicksInit ==
    /\ now = 18 * 3600
    /\ wallpapers \in DaemonConfigs
    /\ cacheFile = init_cache(CacheMissing, TRUE)
    /\ tick = NoTick
    /\ applied = EmptyTriple
    /\ save_failed = FALSE
    /\ rand = NoRand
    /\ weather = NoWeather
    /\ phase = "none"
    /\ next_cp = NoCheckpoint
    /\ prev_label = "none"
    /\ help_phase = "none"
    /\ seconds = 0
    /\ settings = Settings(0, TRUE)
    /\ stats = StatsMissing
    /\ client = "none"
    /\ post = NoPost
    /\ hist = NoHist(StatsMissing)
    /\ inflight = << >>
    /\ pc = "run_once"

TicksHours == 3          \* this daemon is followed for TicksHours hours after its start

DaemonTicksNext ==
    \/ DaemonTickStart
    \/ DaemonTickEnd
    \/ DaemonCheckpoint
    \/ now + seconds <= (18 + TicksHours) * 3600 /\ DaemonWake

SpecDaemonTicks == DaemonTicksInit /\ [][DaemonTicksNext]_vars

\* ------------------------------------------------------------ pick_instance on its own
PickPhases == {"dawn", "day"}

\* (weather[0].main, weather[0].id, clouds.all) as WeatherProvider.fetch stores
\* them, and arguments in which category and code disagree or one is None
PickConditions ==
    { <<"Thunderstorm", 211, 100>>, <<"Drizzle", 300, 90>>, <<"Rain", 500, 80>>,
      <<"Rain", 502, 100>>, <<"Snow", 602, 90>>, <<"Mist", 701, 90>>,
      <<"Fog", 741, 50>>, <<"Clear", 800, 0>>, <<"Clouds", 802, 50>>,
      <<"Clouds", 804, 85>>, <<"Tornado", 781, 39>>, <<NoneStr, NoneInt, NoneInt>>,
      <<"Drizzle", 502, 90>>, <<"Clear", 211, 0>>, <<NoneStr, 803, 60>>,
      <<"Haze", NoneInt, NoneInt>> }

\* fog variants under dawn and under day, empty lists (one of them a fog
\* variant's), no clear under dawn
FogMatrix ==
    [ph \in {"dawn", "day"} |->
        IF ph = "dawn"
        THEN << Entry("cloudy", << >>),
                Entry("fog_clear", << >>),
                Entry("fog_cloudy", <<"fogc.jpg">>),
                Entry("rain", <<"rain.jpg">>) >>
        ELSE << Entry("fog_clear", <<"fog.jpg">>),
                Entry("clear", <<"day.jpg">>) >>]

EmptyMatrix == [ph \in {} |-> << >>]

PickMatrices == {RunMatrix, FogMatrix, EmptyMatrix}

PickConfigs ==
    {Wallpapers(FlagsFog(m, TRUE, r, a), fc, tc, mx) :
        m \in Modes, r \in BOOLEAN, a \in BOOLEAN,
        fc \in 0..Res, tc \in 0..Res, mx \in PickMatrices}

PickInit ==
    /\ wallpapers \in PickConfigs
    /\ phase \in PickPhases
    /\ \E c \in PickConditions : weather = Signal(6 * 3600, 20 * 3600, c[1], c[2], c[3])
    /\ now = 0
    /\ next_cp = NoCheckpoint
    /\ prev_label = "none"
    /\ help_phase = "none"
    /\ cacheFile = EmptyCache
    /\ tick = NoTick
    /\ applied = EmptyTriple
    /\ save_failed = FALSE
    /\ rand = NoRand
    /\ seconds = 0
    /\ settings = Settings(50, TRUE)
    /\ stats = StatsMissing
    /\ client = "none"
    /\ post = NoPost
    /\ hist = NoHist(StatsMissing)
    /\ inflight = << >>
    /\ pc = "pick"

\* self.wallpapers.pick_instance(phase, weather_main, weather_id, clouds) as
\* run_once calls it (lines 64-69)
PickInstance ==
    /\ pc = "pick"
    /\ \E fog_rand \in Draws, thunder_rand \in Draws, k \in 1..MaxChoice :
        LET main == IF weather.weather_main = NoneStr
                    THEN NoneStr ELSE Lower(weather.weather_main)
            inst == pick_instance(wallpapers, phase, main, weather.weather_id,
                                  weather.clouds_percent, fog_rand, thunder_rand, k)
        IN  /\ rand' = [fog |-> fog_rand, thunder |-> thunder_rand, k |-> k]
            /\ tick' = Ticked("picked", inst, NoPath, "none")
    /\ pc' = "picked"
    /\ UNCHANGED <<now, weather, phase, next_cp, prev_label, help_phase, wallpapers, inflight, cacheFile,
                   applied, save_failed, seconds, settings, stats, client, post, hist>>

PickNext == PickInstance

SpecPick == PickInit /\ [][PickNext]_vars

\* ------------------------------------------------------------ resolve_file on its own
\* dawn: an empty list, a fog list and clear after them; day: no clear at all;
\* night: nothing but an empty list
ResolveMatrix ==
    [ph \in {"dawn", "day", "night"} |->
        IF ph = "dawn"
        THEN << Entry("cloudy", << >>),
                Entry("fog_cloudy", <<"fogc.jpg">>),
                Entry("clear", <<"./dawn1.jpg", "img/../dawn2.jpg">>) >>
        ELSE IF ph = "day"
        THEN << Entry("rain", << >>),
                Entry("heavy_rain", <<"rain.jpg", "gone.jpg">>) >>
        ELSE << Entry("clear", << >>) >>]

ResolveMatrices == {ResolveMatrix, RunMatrix, FogMatrix, EmptyMatrix}
ResolvePhases == {"dawn", "day", "night", "sunset"}
ResolveInstances == {"clear", "cloudy", "fog_cloudy", "rain", "heavy_rain", "thunderstorm"}

ResolveConfigs ==
    {Wallpapers(Flags("weather_based", TRUE, r), 1, 1, mx) :
        r \in BOOLEAN, mx \in ResolveMatrices}

ResolveInit ==
    /\ wallpapers \in ResolveConfigs
    /\ phase \in ResolvePhases
    /\ \E inst \in ResolveInstances : tick = Ticked("picked", inst, NoPath, "none")
    /\ weather = NoWeather
    /\ now = 0
    /\ next_cp = NoCheckpoint
    /\ prev_label = "none"
    /\ help_phase = "none"
    /\ cacheFile = EmptyCache
    /\ applied = EmptyTriple
    /\ save_failed = FALSE
    /\ rand = NoRand
    /\ seconds = 0
    /\ settings = Settings(50, TRUE)
    /\ stats = StatsMissing
    /\ client = "none"
    /\ post = NoPost
    /\ hist = NoHist(StatsMissing)
    /\ inflight = << >>
    /\ pc = "resolve"

\* self.wallpapers.pick_wallpaper(phase, instance) as run_once calls it (line 71)
ResolveFile ==
    /\ pc = "resolve"
    /\ \E k \in 1..MaxChoice :
        /\ rand' = [rand EXCEPT !.k = k]
        /\ tick' = Ticked("resolved", tick.instance,
                          resolve_file(wallpapers, phase, tick.instance, k), "none")
    /\ pc' = "resolved"
    /\ UNCHANGED <<now, weather, phase, next_cp, prev_label, help_phase, wallpapers, inflight, cacheFile,
                   applied, save_failed, seconds, settings, stats, client, post, hist>>

ResolveNext == ResolveFile

SpecResolve == ResolveInit /\ [][ResolveNext]_vars

\* ------------------------------------------------------------ inputs of the clock
Instants == {k * Grid : k \in 0..MaxSlot}
Sunrises == {6 * 3600}
\* day lengths: 10 min, 1 h, 1.5 h, 3 h and 4 h (the windows overlap or the day
\* window is empty), just over 4 h, and 14 h
DayLengths == {Grid, 3600, 5400, 3 * 3600, 4 * 3600, 4 * 3600 + Grid, 14 * 3600}

\* ------------------------------------------------------------ help/selector.py

\* _bounds(sunrise, sunset): the six thresholds of the cascade
help_bounds(sunrise, sunset) ==
    [dawn_start |-> sunrise - M30,
     dawn_end |-> sunrise + M30,
     morning_end |-> sunrise + H2,
     day_end |-> sunset - H2,
     evening_end |-> sunset - M30,
     sunset_end |-> sunset + M30]

\* variant: the instant of day_end still counts as day
help_get_phase_day_end_inclusive(w, t) ==
    LET b == help_bounds(w.sunrise, w.sunset)
    IN  IF t < b.dawn_start THEN "night"
        ELSE IF t < b.dawn_end THEN "dawn"
        ELSE IF t < b.morning_end THEN "morning"
        ELSE IF t <= b.day_end THEN "day"
        ELSE IF t < b.evening_end THEN "evening"
        ELSE IF t < b.sunset_end THEN "sunset"
        ELSE "night"

\* TimeSelector.get_phase of help/selector.py: the first threshold now is below
help_get_phase(w, t) ==
    LET b == help_bounds(w.sunrise, w.sunset)
    IN  IF t < b.dawn_start THEN "night"
        ELSE IF t < b.dawn_end THEN "dawn"
        ELSE IF t < b.morning_end THEN "morning"
        ELSE IF t < b.day_end THEN "day"
        ELSE IF t < b.evening_end THEN "evening"
        ELSE IF t < b.sunset_end THEN "sunset"
        ELSE "night"

\* ------------------------------------------------------------ the clock as a system
service_vars == <<wallpapers, cacheFile, tick, applied, save_failed, rand, seconds, pc,
                  settings, stats, client, post, hist, inflight>>

ClockInit ==
    /\ now \in Instants
    /\ \E sr \in Sunrises, d \in DayLengths : weather = WeatherData(sr, sr + d)
    /\ phase = "none"
    /\ next_cp = NoCheckpoint
    /\ prev_label = "none"
    /\ help_phase = "none"
    /\ wallpapers = DefaultWallpapers
    /\ cacheFile = EmptyCache
    /\ tick = NoTick
    /\ applied = EmptyTriple
    /\ save_failed = FALSE
    /\ rand = NoRand
    /\ seconds = 0
    /\ settings = Settings(50, TRUE)
    /\ stats = StatsMissing
    /\ client = "none"
    /\ post = NoPost
    /\ hist = NoHist(StatsMissing)
    /\ inflight = << >>
    /\ pc = "clock"

\* selector.get_phase(now_local)
ClockGetPhase ==
    /\ phase = "none"
    /\ phase' = get_phase(weather, now)
    /\ UNCHANGED <<now, weather, next_cp, prev_label, help_phase, service_vars>>

\* help/selector.py: phase_at(weather, now), the cascade asked for the same instant
ClockHelpGetPhase ==
    /\ help_phase = "none"
    /\ help_phase' = help_get_phase(weather, now)
    /\ UNCHANGED <<now, weather, phase, next_cp, prev_label, service_vars>>

\* self._compute_next_checkpoint(weather, now_local)
ClockCheckpoint ==
    /\ next_cp = NoCheckpoint
    /\ next_cp' = compute_next_checkpoint(weather, now)
    /\ UNCHANGED <<now, weather, phase, prev_label, help_phase, service_vars>>

\* the returned instant becomes the new now, with the same weather signal
ClockIterate ==
    /\ next_cp # NoCheckpoint
    /\ next_cp.time <= MaxSlot * Grid
    /\ now' = next_cp.time
    /\ prev_label' = next_cp.label
    /\ phase' = "none"
    /\ help_phase' = "none"
    /\ next_cp' = NoCheckpoint
    /\ UNCHANGED <<weather, service_vars>>

ClockNext == ClockGetPhase \/ ClockHelpGetPhase \/ ClockCheckpoint \/ ClockIterate

SpecClock == ClockInit /\ [][ClockNext]_vars

\* ------------------------------------------------------------ claims about the clock

\* The five windows of the TimeSelector docstring, in the order they are tested.
Windows(w) ==
    << <<"dawn", w.sunrise - M30, w.sunrise + M30>>,
       <<"morning", w.sunrise + M30, w.sunrise + H2>>,
       <<"day", w.sunrise + H2, w.sunset - H2>>,
       <<"evening", w.sunset - H2, w.sunset - M30>>,
       <<"sunset", w.sunset - M30, w.sunset + M30>> >>

FirstWindow(w, t) ==
    LET W == Windows(w)
        hits == {i \in 1..Len(W) : W[i][2] <= t /\ t < W[i][3]}
    IN  IF hits = {} THEN "night"
        ELSE W[CHOOSE i \in hits : \A j \in hits : i <= j][1]

\* C1: for every now and sunrise < sunset, get_phase returns one of the six
\* phases, namely the first of the half-open windows dawn, morning, day,
\* evening, sunset (in that order) that contains now, and night when none does.
C1_FirstWindowWins ==
    (phase # "none" /\ weather.sunrise < weather.sunset)
        => /\ phase \in Phase
           /\ phase = FirstWindow(weather, now)

\* C1 witness: a short day on which now lies in both the morning and the evening
\* window and get_phase answered with the earlier one.
C1_Witness ==
    /\ phase = "morning"
    /\ weather.sunset - H2 <= now
    /\ now < weather.sunset - M30

\* C3 (as claimed): _compute_next_checkpoint returns an instant strictly after
\* now, for every now, sunrise and sunset.
C3_CheckpointAfterNow ==
    next_cp # NoCheckpoint => next_cp.time > now

\* C5 (as claimed): the label returned with the checkpoint is the phase that
\* get_phase reports at the returned instant, and get_phase changes value there
\* (stated for days longer than four hours, where no two windows overlap).
C5_LabelIsPhaseAtCheckpoint ==
    (next_cp # NoCheckpoint /\ weather.sunrise + H2 < weather.sunset - H2)
        => /\ get_phase(weather, next_cp.time) = next_cp.label
           /\ get_phase(weather, next_cp.time - 1) # get_phase(weather, next_cp.time)

\* the fixed cyclic order of the checkpoint labels
SuccLabel(l) ==
    CASE l = "dawn" -> "morning"
      [] l = "morning" -> "day"
      [] l = "day" -> "evening"
      [] l = "evening" -> "twilight"
      [] l = "twilight" -> "night"
      [] l = "night" -> "dawn"
      [] OTHER -> "none"

\* a step of the iteration that started from a checkpoint reached earlier and
\* lies before the dawn of the next day
IterationStep ==
    /\ next_cp # NoCheckpoint
    /\ next_cp' = NoCheckpoint
    /\ prev_label # "none"
    /\ now < weather.sunrise + DAY - M30

\* C4 (as claimed): for every sunrise < sunset, iterating the checkpoint yields
\* the labels dawn, morning, day, evening, twilight, night, dawn (next day) in
\* that order, none skipped or repeated.
C4_CyclicOrderAnyDay ==
    [][(IterationStep /\ weather.sunrise < weather.sunset)
          => prev_label' = SuccLabel(prev_label)]_vars

\* C4 (amended): the same, for days longer than four hours
\* (sunrise + 2h < sunset - 2h).
C4_CyclicOrderLongDay ==
    [][(IterationStep /\ weather.sunrise + H2 < weather.sunset - H2)
          => prev_label' = SuccLabel(prev_label)]_vars

\* C4 witness: the iteration has gone from night to the dawn of the next day.
C4_Witness ==
    /\ prev_label = "dawn"
    /\ now = weather.sunrise + DAY - M30
    /\ weather.sunrise + H2 < weather.sunset - H2

\* ------------------------------------------------------------ claims about run_once and the cache

\* a step that is one whole call of run_once
RunOnceStep ==
    \/ pc = "constructed" /\ pc' \in {"exited", "raised"}
    \/ pc = "run_once" /\ pc' = "checkpoint"

\* C6: a run_once whose apply_wallpaper fails, or that returns early (no file
\* resolved, file not on disk, skipped by the cache), leaves the cache file as
\* it was: the cache is written only after a successful apply.
C6_CacheWrittenOnlyAfterApply ==
    [][(RunOnceStep /\ tick'.outcome # "applied") => cacheFile' = cacheFile]_vars

\* C6 witness: apply_wallpaper failed on a triple the cache does not hold, and
\* the cache still holds the triple of an earlier apply.
C6_Witness ==
    /\ tick.outcome = "apply_failed"
    /\ cacheFile.kind = "json"
    /\ cacheFile.data # EmptyTriple
    /\ cacheFile.data # Triple(phase, tick.instance, tick.file)

\* C7: as long as no write of save_cache has failed, the triple load_cache
\* reads is the (phase, instance, file) of the most recent successful apply,
\* and the empty triple before the first one; restarts of the process included.
C7_CacheIsLastApplied ==
    ~save_failed => load_cache(cacheFile) = applied

\* C7 witness: a later process, started after an apply that succeeded, whose
\* own run_once did not apply; the cache still names the earlier apply.
C7_Witness ==
    /\ ~save_failed
    /\ applied # EmptyTriple
    /\ tick.outcome \in {"apply_failed", "missing_file", "no_file"}
    /\ applied # Triple(phase, tick.instance, tick.file)

\* two calls of run_once in succession: the first applied and saved, the second
\* sees the same weather signal and the same phase, finds its file on disk and
\* its apply_wallpaper (if called) succeeds
SecondOfTwoTicks ==
    /\ RunOnceStep
    /\ wallpapers.flags.cache_enabled
    /\ tick.outcome = "applied"
    /\ tick.save = "ok"
    /\ weather' = weather
    /\ phase' = phase
    /\ tick'.outcome \in {"skipped", "applied"}

\* C8 (as claimed): the second of two such calls never calls apply_wallpaper,
\* whatever the mode and the flags.
C8_SecondTickSkipsAlways ==
    [][SecondOfTwoTicks => tick'.outcome = "skipped"]_vars

\* C8 (amended): the second call is skipped when it selects the same instance
\* and the same file as the first, which is certain with mode time_only and
\* use_random_selection off.
C8_SecondTickSkipsSameSelection ==
    [][(/\ SecondOfTwoTicks
        /\ \/ (tick'.instance = tick.instance /\ tick'.file = tick.file)
           \/ (wallpapers.flags.mode = "time_only" /\ ~wallpapers.flags.use_random_selection))
          => tick'.outcome = "skipped"]_vars

\* C8 witness: with random selection among two candidates, a call was skipped
\* because it drew the file that is applied.
C8_Witness ==
    /\ tick.outcome = "skipped"
    /\ wallpapers.flags.use_random_selection
    /\ wallpapers.flags.mode = "weather_based"
    /\ phase = "dawn"
    /\ applied = Triple(phase, tick.instance, tick.file)

\* C9 (as claimed): also when writes of save_cache fail, no call is skipped by
\* the cache while the file last applied differs from the file it proposes.
C9_NoSkipWhileRemoteDiffers ==
    tick.outcome = "skipped" => applied.file = tick.file

\* without a failed write the same statement holds
NoSkipWhileRemoteDiffersUnlessSaveFailed ==
    (tick.outcome = "skipped" /\ ~save_failed) => applied.file = tick.file

\* ------------------------------------------------------------ claims about pick_instance

\* C10: with mode weather_no_fog, pick_instance returns neither fog_clear nor
\* fog_cloudy, whatever the phase, the weather, the matrix and the draws.
C10_NoFogInWeatherNoFog ==
    (pc = "picked" /\ wallpapers.flags.mode = "weather_no_fog")
        => tick.instance \notin {"fog_clear", "fog_cloudy"}

\* C10 witness: at dawn with a clear base, a fog variant in the matrix and a fog
\* draw below fogChance, mode weather_no_fog returned the base.
C10_Witness ==
    /\ pc = "picked"
    /\ wallpapers.flags.mode = "weather_no_fog"
    /\ phase = "dawn"
    /\ FogTarget(wallpapers, phase, "clear") = "fog_clear"
    /\ rand.fog < wallpapers.probabilities.fogChance
    /\ tick.instance = "clear"

ExpectedOutcomes(ph, inst, path, file) ==
    IF path = NoPath THEN {"no_file"}
    ELSE IF path \notin FilesOnDisk THEN {"missing_file"}
    ELSE IF /\ wallpapers.flags.cache_enabled
            /\ load_cache(file) = Triple(ph, inst, path)
         THEN {"skipped"}
         ELSE {"applied", "apply_failed"}

\* C14: when the weather lookup returns None, run_once does not abort: the
\* phase is day, pick_instance gets an absent signal (category, code and cloud
\* percent all None), and file resolution, cache check and apply follow as for
\* an available signal.
C14_DegradesToDay ==
    [][(RunOnceStep /\ weather' = NoWeather)
          => /\ phase' = "day"
             /\ tick'.instance \in PickedInstances(wallpapers, "day", NoneStr, NoneInt, NoneInt)
             /\ tick'.file \in PickedPaths(wallpapers, "day", tick'.instance)
             /\ tick'.outcome \in ExpectedOutcomes("day", tick'.instance, tick'.file, cacheFile)]_vars

\* C14 witness: at 23:00, where an available signal gives night, the lookup
\* failed and the day wallpaper was applied and cached.
C14_Witness ==
    /\ weather = NoWeather
    /\ now = 23 * 3600
    /\ phase = "day"
    /\ tick.outcome = "applied"
    /\ applied = Triple("day", "clear", <<"/base", "day.jpg">>)
    /\ cacheFile = CacheJson(applied)

\* C19: should_skip_by_cache answers true only if cache_enabled is set and the
\* triple the cache file holds equals the proposed one in phase, instance and
\* path; with cache_enabled off it answers false whatever the file holds, so
\* every run_once whose resolved file is on disk calls apply_wallpaper.
C19_SkipOnlyOnFullMatch ==
    [][RunOnceStep
          => /\ tick'.outcome = "skipped"
                  => /\ wallpapers.flags.cache_enabled
                     /\ cacheFile.kind = "json"
                     /\ cacheFile.data.phase = phase'
                     /\ cacheFile.data.weather = tick'.instance
                     /\ cacheFile.data.file = tick'.file
             /\ (~wallpapers.flags.cache_enabled /\ tick'.file \in FilesOnDisk)
                  => tick'.outcome \in {"applied", "apply_failed"}]_vars

\* C19 witness: with cache_enabled off, a run applied the very triple the cache
\* file already held.
C19_Witness ==
    /\ ~wallpapers.flags.cache_enabled
    /\ tick.outcome = "applied"
    /\ tick.save = "fail_unchanged"
    /\ cacheFile = CacheJson(Triple(phase, tick.instance, tick.file))

\* C20: the cache operations never stop run_once and degrade to always apply:
\* with the cache file missing or unreadable should_skip_by_cache answers
\* false, so a run whose file is on disk calls apply_wallpaper; when the
\* write of save_cache fails, run_once goes on with the steps after it.
C20_CacheFailuresDegrade ==
    [][RunOnceStep
          => /\ (cacheFile.kind # "json" /\ tick'.file \in FilesOnDisk)
                  => tick'.outcome \in {"applied", "apply_failed"}
             /\ (tick'.outcome = "applied" /\ tick'.save # "ok")
                  => /\ post'.trim # "none"
                     /\ post'.stats # "none"
                     /\ post'.close # "none"]_vars

\* C20 witness: a write of save_cache left the file unreadable, and the next
\* run, with cache_enabled set, applied again; its own write failed as well.
C20_Witness ==
    /\ wallpapers.flags.cache_enabled
    /\ cacheFile = CacheCorrupt
    /\ tick.outcome = "applied"
    /\ tick.save = "fail_unchanged"
    /\ post.close # "none"

\* ------------------------------------------------------------ claims about the stats

\* the applies counted under an instance
AppliesOf(inst) == IF inst \in DOMAIN hist.applies THEN hist.applies[inst] ELSE 0

\* the applies that belong to the key k: every instance starting with fog
\* under fog, every other instance under itself
AppliesUnder(k) ==
    IF k = "fog" THEN AppliesOf("fog") + AppliesOf("fog_clear") + AppliesOf("fog_cloudy")
    ELSE AppliesOf(k)

\* C18: with the stats enabled and no stats write failed, every counter is its
\* value at construction plus the number of runs whose apply_wallpaper
\* succeeded with an instance of that key (fog_clear and fog_cloudy under fog,
\* every other instance under itself); skipped and failed runs add nothing.
C18_StatsCountApplies ==
    (settings.stats_enabled /\ ~hist.stats_failed)
        => /\ DOMAIN StatsData(stats) = StatKeys
           /\ \A k \in StatKeys : StatsData(stats)[k] = hist.stats0[k] + AppliesUnder(k)

\* C18 witness: fog_clear and fog_cloudy were applied once each and the fog
\* counter, 1 at construction, is 3.
C18_Witness ==
    /\ settings.stats_enabled
    /\ ~hist.stats_failed
    /\ AppliesOf("fog_clear") = 1
    /\ AppliesOf("fog_cloudy") = 1
    /\ hist.stats0["fog"] = 1
    /\ stats.kind = "json"
    /\ stats.data["fog"] = 3

\* ------------------------------------------------------------ claims about resolve_file

\* the file list of an instance of a phase, empty when phase or instance is missing
ListOf(wp, ph, inst) ==
    IF ph \notin DOMAIN wp.matrix THEN << >>
    ELSE LET at == {i \in DOMAIN wp.matrix[ph] : wp.matrix[ph][i].inst = inst}
         IN  IF at = {} THEN << >> ELSE wp.matrix[ph][CHOOSE i \in at : TRUE].files

\* the list the fallback chain selects: the instance's own, else that of clear,
\* else the first non-empty one of the phase in insertion order
SelectedList(wp, ph, inst) ==
    IF ListOf(wp, ph, inst) # << >> THEN ListOf(wp, ph, inst)
    ELSE IF ListOf(wp, ph, "clear") # << >> THEN ListOf(wp, ph, "clear")
    ELSE IF ph \notin DOMAIN wp.matrix THEN << >>
    ELSE LET pm == wp.matrix[ph]
             ne == {i \in DOMAIN pm : pm[i].files # << >>}
         IN  IF ne = {} THEN << >>
             ELSE pm[CHOOSE i \in ne : \A j \in ne : i <= j].files

\* C12: resolve_file picks from matrix[phase][instance] when that list is
\* non-empty, otherwise from matrix[phase]["clear"], otherwise from the first
\* non-empty list of the phase; it returns None exactly when the phase is
\* missing or has no non-empty list; a returned path is base_dir joined with
\* an element of the selected list.
C12_FallbackChain ==
    pc = "resolved" =>
        LET sel == SelectedList(wallpapers, phase, tick.instance)
        IN  /\ (tick.file = NoPath) <=> (sel = << >>)
            /\ tick.file # NoPath =>
                  \E i \in DOMAIN sel : tick.file = Resolve(sel[i])

\* C12 witness: the instance has an empty list, the phase has no clear, and the
\* file comes from the first non-empty list of the phase.
C12_Witness ==
    /\ pc = "resolved"
    /\ ListOf(wallpapers, phase, tick.instance) = << >>
    /\ ListOf(wallpapers, phase, "clear") = << >>
    /\ tick.file = <<"/base", "fogc.jpg">>

\* the base instance of the weather signal in use, as run_once passes it
BaseOfWeather ==
    BaseInstance(IF weather.weather_main = NoneStr THEN NoneStr ELSE Lower(weather.weather_main),
                 weather.weather_id, weather.clouds_percent)

\* C11 (as claimed): with apply_fog_for_all_phases set, mode weather_based, a
\* base of clear or cloudy, a fog target in the phase's matrix entry and a fog
\* draw below fogChance, pick_instance returns the fog target also for a
\* phase other than dawn.
C11_FogForAllPhases ==
    (/\ pc = "picked"
     /\ wallpapers.flags.apply_fog_for_all_phases
     /\ wallpapers.flags.mode = "weather_based"
     /\ phase # "dawn"
     /\ BaseOfWeather \in {"clear", "cloudy"}
     /\ FogTarget(wallpapers, phase, BaseOfWeather) # ""
     /\ rand.fog < wallpapers.probabilities.fogChance)
        => tick.instance = FogTarget(wallpapers, phase, BaseOfWeather)

\* the flag changes nothing: pick_instance never reads it
FogFlagIsIgnored ==
    (pc = "picked" /\ wallpapers.flags.mode # "random_mode" /\ phase # "dawn")
        => tick.instance \notin {"fog_clear", "fog_cloudy"}

\* ------------------------------------------------------------ claims about run_daemon

\* the six instants of the day of t at which get_phase changes value
PhaseChanges(t) ==
    LET w == SignalAt(t, <<NoneStr, NoneInt, NoneInt>>)
    IN  {w.sunrise - M30, w.sunrise + M30, w.sunrise + H2,
         w.sunset - H2, w.sunset - M30, w.sunset + M30}

\* C2 (as claimed): with the weather signal available, the daemon never sleeps
\* across a change of the active phase: no instant at which get_phase changes
\* lies strictly between the start and the end of a sleep.
C2_NoSleepAcrossPhaseChange ==
    [][(pc = "sleep" /\ pc' = "run_once" /\ next_cp # NoCheckpoint)
          => \A b \in PhaseChanges(now) : ~(now < b /\ b < now')]_vars

\* C16: after every tick the daemon sleeps max(1 s, next checkpoint - now) when
\* the fresh fetch gave a signal, and max(1 s, the fallback interval) when the
\* fetch returned None; the sleep is never shorter than 1 second.
C16_SleepIsClamped ==
    [][(pc = "checkpoint" /\ pc' = "sleep")
          => /\ seconds' >= 1
             /\ IF next_cp' = NoCheckpoint
                THEN seconds' = interval_minutes * 60
                ELSE /\ \E w \in FetchAt(now) \ {NoWeather} :
                          next_cp' = compute_next_checkpoint(w, now)
                     /\ seconds' = IF next_cp'.time - now >= 1
                                   THEN next_cp'.time - now ELSE 1]_vars

\* C16 witness: the checkpoint computed from the signal of the day before lies
\* in the past, and the daemon sleeps one second.
C16_Witness ==
    /\ pc = "sleep"
    /\ next_cp # NoCheckpoint
    /\ next_cp.time < now
    /\ seconds = 1

\* C15: a run_once that raised inside run_daemon does not end the loop: the
\* sleep of that tick is computed and taken and another run_once starts (or,
\* at the end of the days followed, the sleep computed is the one in progress).
C15_LoopSurvivesBadTick ==
    (tick.outcome = "apply_failed" /\ pc # "run_once")
        ~> \/ pc = "run_once"
           \/ pc = "sleep" /\ seconds >= 1 /\ now + seconds > MaxDays * DAY

\* C15 witness: a new tick is about to start after the sleep that followed a
\* tick whose apply_wallpaper raised.
C15_Witness ==
    /\ pc = "run_once"
    /\ tick.outcome = "apply_failed"
    /\ seconds >= 1
    /\ now = 22 * 3600 + interval_minutes * 60

\* C17: whenever the loop of run_daemon is left (a cancellation or interrupt
\* during run_once, during the checkpoint computation or during the sleep),
\* the close of the client is attempted before run_daemon finishes, and a
\* failure of that close does not keep run_daemon from finishing.
C17_CloseOnExit ==
    [][/\ (pc \in {"run_once", "checkpoint", "sleep"} /\ pc' # pc /\ post'.cancel # "none")
            => pc' = "closing"
       /\ pc' = "finished"
            => /\ pc = "closing"
               /\ post'.final \in {"noop", "ok", "failed"}
               /\ post'.final = "noop" <=> client = "none"
               /\ post'.final = "ok" => client' = "none"]_vars

\* C17 witness: cancelled during apply_wallpaper with the client connected,
\* run_daemon finished although the close raised.
C17_Witness ==
    /\ pc = "finished"
    /\ post.cancel = "run_once"
    /\ post.final = "failed"
    /\ client = "connected"

\* ------------------------------------------------------------ claims about the steps around apply_wallpaper

\* C21: in single-shot use a failure of apply_wallpaper leaves run_once as an
\* exception that reaches the caller, and for that call the cache save, the
\* log trim and the stats update are not executed: the cache file and the
\* stats file are as before.
C21_ApplyFailurePropagates ==
    [][(pc = "constructed" /\ pc' # pc /\ tick'.outcome = "apply_failed")
          => /\ pc' = "raised"
             /\ tick'.save = "none"
             /\ post'.trim = "none"
             /\ post'.stats = "none"
             /\ cacheFile' = cacheFile
             /\ stats' = stats
             /\ hist' = hist]_vars

\* C21 witness: with the cache, the trim and the stats all enabled, and after
\* an apply that was saved and counted, a later run ended with the exception
\* of apply_wallpaper.
C21_Witness ==
    /\ pc = "raised"
    /\ tick.outcome = "apply_failed"
    /\ wallpapers.flags.cache_enabled
    /\ settings.stats_enabled
    /\ settings.log_max_entries > 0
    /\ hist.total > 0
    /\ cacheFile.kind = "json"
    /\ cacheFile.data = applied
    /\ applied # EmptyTriple

\* C22: the ticks of one daemon do not overlap. At most one call of run_once
\* is in progress at any moment; a call starts only when none is in progress,
\* and the loop comes to a new call only from the sleep, when it has elapsed;
\* the cache file and the stats file are written only by the one call in
\* progress, as it finishes.
C22_TicksDoNotOverlap ==
    [][/\ Len(inflight') <= 1
       /\ Len(inflight') > Len(inflight) => (pc = "run_once" /\ inflight = << >>)
       /\ (pc # "run_once" /\ pc' = "run_once")
            => (pc = "sleep" /\ inflight = << >> /\ now' = now + seconds)
       /\ (cacheFile' # cacheFile \/ stats' # stats)
            => (Len(inflight) = 1 /\ inflight' = << >>)]_vars

\* C22 witness: a call of run_once is suspended in apply_wallpaper, after an
\* earlier tick that applied and counted and after the sleep that followed it.
C22_Witness ==
    /\ pc = "in_run_once"
    /\ Len(inflight) = 1
    /\ tick.outcome = "applied"
    /\ hist.total > 0
    /\ stats.kind = "json"
    /\ now > 18 * 3600

\* ------------------------------------------------------------ claims about the classification

\* the category, code and cloud cover of the signal in use; an absent value
\* is no category, code 0, cloud 0
Category == IF weather.weather_main = NoneStr THEN "" ELSE Lower(weather.weather_main)
Code == IF weather.weather_id = NoneInt THEN 0 ELSE weather.weather_id
Cloud == IF weather.clouds_percent = NoneInt THEN 0 ELSE weather.clouds_percent

ByCloud == IF Cloud >= 85 THEN "overcast" ELSE IF Cloud >= 40 THEN "cloudy" ELSE "clear"

\* the rules of the classification in their priority order: <<applies, base>>
Rules ==
    << <<Category = "thunderstorm" \/ Code \in 200..232, "heavy_rain">>,
       <<Category = "drizzle", "rain">>,
       <<Category = "rain" \/ Code \in 500..531,
         IF Code \in {502, 503, 504, 522, 531} THEN "heavy_rain" ELSE "rain">>,
       <<Category = "snow" \/ Code \in 600..622,
         IF Code \in {602, 622} THEN "heavy_rain" ELSE "rain">>,
       <<Category \in {"mist", "fog", "haze"} \/ Code \in 700..799, ByCloud>>,
       <<Category = "clear" \/ Code = 800, "clear">>,
       <<Category = "clouds" \/ Code \in 801..804, ByCloud>>,
       <<TRUE, "clear">> >>

\* the base of the first rule that applies
FirstRuleBase ==
    Rules[CHOOSE i \in DOMAIN Rules : Rules[i][1] /\ \A j \in 1..(i - 1) : ~Rules[j][1]][2]

\* C23: with mode time_only pick_instance returns clear. With any other mode
\* the base it classifies is the base of the first rule that applies, never a
\* fog instance; in the weather modes the result is that base unless an
\* overlay (fog variant, thunderstorm) replaced it.
C23_BaseByFirstRule ==
    pc = "picked" =>
        IF wallpapers.flags.mode = "time_only" THEN tick.instance = "clear"
        ELSE /\ BaseOfWeather = FirstRuleBase
             /\ FirstRuleBase \notin {"fog_clear", "fog_cloudy", "fog"}
             /\ (/\ wallpapers.flags.mode \in {"weather_based", "weather_no_fog"}
                 /\ tick.instance \notin {"fog_clear", "fog_cloudy", "thunderstorm"})
                    => tick.instance = FirstRuleBase

\* C23 witness: category drizzle with a heavy-rain code was classified rain by
\* the drizzle rule, which comes before the rain rule.
C23_Witness ==
    /\ pc = "picked"
    /\ wallpapers.flags.mode = "weather_no_fog"
    /\ weather.weather_main = "Drizzle"
    /\ weather.weather_id = 502
    /\ tick.instance = "rain"

\* C24: in the modes weather_based and weather_no_fog pick_instance returns
\* thunderstorm exactly when the classified base is heavy_rain and the thunder
\* draw is below thunderChance: never with thunderChance = 0, whatever the
\* category, and never together with the fog overlay (a fog instance is
\* returned only for a base other than heavy_rain).
C24_ThunderOnlyOverHeavyRain ==
    (pc = "picked" /\ wallpapers.flags.mode \in {"weather_based", "weather_no_fog"})
        => /\ tick.instance = "thunderstorm"
                <=> (/\ BaseOfWeather = "heavy_rain"
                     /\ rand.thunder < wallpapers.probabilities.thunderChance)
           /\ wallpapers.probabilities.thunderChance = 0 => tick.instance # "thunderstorm"
           /\ tick.instance \in {"fog_clear", "fog_cloudy"} => BaseOfWeather # "heavy_rain"

\* C24 witness: a thunderstorm category with thunderChance = 0 and the lowest
\* thunder draw came back as heavy_rain.
C24_Witness ==
    /\ pc = "picked"
    /\ wallpapers.flags.mode = "weather_based"
    /\ weather.weather_main = "Thunderstorm"
    /\ wallpapers.probabilities.thunderChance = 0
    /\ rand.thunder = 0
    /\ tick.instance = "heavy_rain"

\* C25: after an apply_wallpaper that returned, the cache save, the log trim
\* and the stats update are each attempted whatever became of the others, and
\* run_once returns: a write of the stats that succeeds adds its count also
\* after a failed save and a failed trim, and a save that succeeds is in the
\* cache file also when the trim or the stats write fails.
C25_PostStepsBestEffort ==
    [][(pc = "constructed" /\ pc' # pc /\ tick'.outcome = "applied")
          => /\ pc' = "exited"
             /\ tick'.save \in SaveOutcomes
             /\ post'.trim \in TrimOutcomes(settings.log_max_entries)
             /\ post'.stats \in StatsOutcomes(settings.stats_enabled)
             /\ post'.close \in {"ok", "failed"}
             /\ tick'.save = "ok" => load_cache(cacheFile') = applied'
             /\ post'.stats = "ok"
                  => stats' = StatsJson(Bump(StatsData(stats), StatKey(tick'.instance)))]_vars

\* C25 witness: the save and the trim failed, the stats update that followed
\* them succeeded and was counted, and run_once returned.
C25_Witness ==
    /\ pc = "exited"
    /\ tick.outcome = "applied"
    /\ tick.save = "fail_truncated"
    /\ post.trim = "failed"
    /\ post.stats = "ok"
    /\ stats.kind = "json"
    /\ stats.data[StatKey(tick.instance)] = hist.stats0[StatKey(tick.instance)] + 1

\* C26 (as claimed): when a single-shot run_once finishes, by returning or by
\* the exception of apply_wallpaper, the client is disconnected (unless the
\* disconnect itself failed).
C26_ClientClosedOnEveryExit ==
    (pc \in {"exited", "raised"} /\ post.close # "failed") => client = "none"

\* on the paths where run_once returns the statement holds
ClientClosedWhenRunOnceReturns ==
    (pc = "exited" /\ post.close # "failed") => client = "none"

\* ------------------------------------------------------------ claims about the daemon after a failed tick

\* the sleeps the scheduler chooses at the instant t, whatever the tick did
NormalSleeps(t) ==
    {Max(1, compute_next_checkpoint(w, t).time - t) : w \in FetchAt(t) \ {NoWeather}}
        \cup {Max(1, interval_minutes * 60)}

\* C27: a daemon tick whose apply_wallpaper failed leaves the cache file as it
\* was; the sleep after it is a normal one (to the next checkpoint, or the
\* fallback interval) and the next tick starts when it has elapsed; that tick,
\* if it resolves the same phase, instance and file, is not skipped by the
\* cache: it calls apply_wallpaper again.
C27_FailedTickIsRetriedAtNextWake ==
    [][/\ (pc = "run_once" /\ pc' = "checkpoint" /\ tick'.outcome = "apply_failed")
            => cacheFile' = cacheFile
       /\ (pc = "checkpoint" /\ pc' = "sleep" /\ tick.outcome = "apply_failed")
            => seconds' \in NormalSleeps(now)
       /\ (pc = "sleep" /\ pc' = "run_once" /\ tick.outcome = "apply_failed")
            => now' = now + seconds
       /\ (/\ pc = "run_once" /\ pc' = "checkpoint"
           /\ tick.outcome = "apply_failed"
           /\ phase' = phase /\ tick'.instance = tick.instance /\ tick'.file = tick.file)
            => tick'.outcome \in {"applied", "apply_failed"}]_vars

\* C27 witness: the tick of 08:30 applied the day file although the cache is
\* enabled, only one file can be selected and no save has ever failed. The
\* tick before it was the one of 08:00 (08:30 is no checkpoint, so the sleep
\* was the fallback interval); from 08:00 on the phase is day with or without
\* a weather signal, so that tick resolved the same triple, and it cannot
\* have applied it or been skipped, or this tick would have been skipped: its
\* apply failed.
C27_Witness ==
    /\ pc = "checkpoint"
    /\ now = 6 * 3600 + H2 + interval_minutes * 60
    /\ phase = "day"
    /\ tick.outcome = "applied"
    /\ wallpapers.flags.cache_enabled
    /\ ~wallpapers.flags.use_random_selection
    /\ ~save_failed

\* ------------------------------------------------------------ claims about the windows of get_phase

\* C28: for every sunrise < sunset, days shorter than 4 hours included,
\* get_phase does not return night for an instant from sunrise - 30m up to,
\* not including, sunset + 30m.
C28_NoNightBetweenDawnAndSunset ==
    (/\ phase # "none"
     /\ weather.sunrise < weather.sunset
     /\ weather.sunrise - M30 <= now
     /\ now < weather.sunset + M30)
        => phase # "night"

\* C28 witness: on a day shorter than 4 hours, where the day window is empty,
\* an instant after the end of the morning window was answered with evening.
C28_Witness ==
    /\ weather.sunset - weather.sunrise < 2 * H2
    /\ now >= weather.sunrise + H2
    /\ phase = "evening"

\* ------------------------------------------------------------ claims about the fog instances

\* the paths resolve_file can return for the instance, over the draws
ResolvedPaths(inst) == {resolve_file(wallpapers, phase, inst, k) : k \in 1..MaxChoice}

\* the instance is a key of matrix[phase] with a non-empty list, and
\* resolve_file returns a file of that list, not of a fallback
OwnFileResolved(inst) ==
    LET own == ListOf(wallpapers, phase, inst)
    IN  /\ own # << >>
        /\ \A p \in ResolvedPaths(inst) : \E i \in DOMAIN own : p = Resolve(own[i])

\* where the overlay can act and no fog key has files, the base is returned
BaseKeptWithoutFogKeys ==
    (/\ wallpapers.flags.mode \in {"weather_based", "weather_no_fog"}
     /\ BaseOfWeather \in {"clear", "cloudy"}
     /\ FogTarget(wallpapers, phase, BaseOfWeather) = "")
        => tick.instance = BaseOfWeather

\* C29 (as claimed): whenever pick_instance returns fog_clear or fog_cloudy,
\* in whatever mode, the instance is a key of matrix[phase] with a non-empty
\* list and resolve_file does not fall back for it; without a fog key the
\* base is returned unchanged.
C29_ReturnedFogHasFiles ==
    pc = "picked" =>
        /\ tick.instance \in {"fog_clear", "fog_cloudy"} => OwnFileResolved(tick.instance)
        /\ BaseKeptWithoutFogKeys

\* C29 (amended): the same in every mode but random_mode, where the fog
\* instance returned is the target of the overlay: fog_<base> when that key
\* has files, else the sibling.
C29_OverlayFogHasFiles ==
    (pc = "picked" /\ wallpapers.flags.mode # "random_mode") =>
        /\ tick.instance \in {"fog_clear", "fog_cloudy"}
             => /\ OwnFileResolved(tick.instance)
                /\ tick.instance = FogTarget(wallpapers, phase, BaseOfWeather)
        /\ BaseKeptWithoutFogKeys

\* C29 witness: the preferred fog_clear is a key with an empty list, and the
\* overlay returned the sibling fog_cloudy, which has a file.
C29_Witness ==
    /\ pc = "picked"
    /\ wallpapers.flags.mode = "weather_based"
    /\ BaseOfWeather = "clear"
    /\ "fog_clear" \in {MatrixGet(wallpapers, phase)[i].inst : i \in DOMAIN MatrixGet(wallpapers, phase)}
    /\ tick.instance = "fog_cloudy"
    /\ ListOf(wallpapers, phase, "fog_cloudy") # << >>

\* ------------------------------------------------------------ claims about the two selectors

\* both selectors have answered for the instant now
BothAnswered == phase # "none" /\ help_phase # "none"

\* C30: whenever sunset - sunrise >= 4 hours, the window tests of
\* app/selector.py and the cascade of help/selector.py return the same phase
\* for the same instant.
C30_SelectorsAgreeOnLongDays ==
    (BothAnswered /\ weather.sunset - weather.sunrise >= 2 * H2) => phase = help_phase

\* C30 witness: on a day of exactly 4 hours, where the day window is empty,
\* both selectors answered evening at sunrise + 2h = sunset - 2h.
C30_Witness ==
    /\ BothAnswered
    /\ weather.sunset - weather.sunrise = 2 * H2
    /\ now = weather.sunrise + H2
    /\ phase = "evening"
    /\ help_phase = "evening"
====
